---- MODULE Spec2Model ----
(***************************************************************************)
(* Model of metamover (strip-metadata): the dependency check, the walk of  *)
(* the working directory, the per-file batch loop with the                 *)
(* strip-and-replace sequence, and the two metadata classifications.       *)
(*                                                                         *)
(* Strings are sequences of one-character strings, so that filepath.Ext,   *)
(* strings.ToLower, strings.Split, strings.TrimSuffix and                  *)
(* strings.HasPrefix are computed the way the Go library computes them.    *)
(***************************************************************************)
EXTENDS Integers, Sequences, FiniteSets, TLC

VARIABLES
    fs,          \* the file system: path -> entry
    pc,          \* position of main / checkFFmpeg / stripMetadata
    videoFiles,  \* result of findVideoFiles
    walkErr,     \* findVideoFiles returned an error
    idx,         \* loop index in main (1-based), 0 before the loop
    expired,     \* the 30-minute context of main is done
    installExpired, \* the 20-minute install context is done
    running,     \* the external process alive right now
    runErr,      \* stripMetadata is on an error return path
    hist,        \* observations of the run (history record)
    snapshot,    \* a metadataInfo value (classification)
    found,       \* foundMetadata of displayMetadata
    remaining,   \* remainingMetadata of verifyMetadataRemoved
    phase        \* which specification is running / its position

vars == <<fs, pc, videoFiles, walkErr, idx, expired, installExpired, running,
          runErr, hist, snapshot, found, remaining, phase>>

----------------------------------------------------------------------------
(* Bounds *)

MaxEntries == 3      \* entries under the working directory
MaxTags == 2         \* tags in one metadata snapshot
MaxStreams == 2      \* streams in one metadata snapshot

----------------------------------------------------------------------------
(* Strings *)

RECURSIVE SeqToSet(_)
SeqToSet(s) == IF s = <<>> THEN {} ELSE {Head(s)} \cup SeqToSet(Tail(s))

\* byte values of the characters that occur in the modelled names
Ascii(c) ==
    CASE c = "," -> 44 [] c = "." -> 46 [] c = "/" -> 47 [] c = "4" -> 52
      [] c = "M" -> 77 [] c = "P" -> 80
      [] c = "a" -> 97 [] c = "b" -> 98 [] c = "c" -> 99 [] c = "d" -> 100
      [] c = "e" -> 101 [] c = "f" -> 102 [] c = "i" -> 105 [] c = "k" -> 107
      [] c = "l" -> 108 [] c = "m" -> 109 [] c = "n" -> 110 [] c = "o" -> 111
      [] c = "p" -> 112 [] c = "t" -> 116 [] c = "v" -> 118 [] c = "w" -> 119
      [] c = "x" -> 120

\* strings.ToLower, per character
LowerChar(c) ==
    CASE c = "M" -> "m" [] c = "P" -> "p" [] OTHER -> c

ToLower(s) == [i \in 1..Len(s) |-> LowerChar(s[i])]

\* strings.HasPrefix
HasPrefix(s, prefix) ==
    Len(s) >= Len(prefix) /\ SubSeq(s, 1, Len(prefix)) = prefix

\* strings.HasSuffix / strings.TrimSuffix
HasSuffix(s, suffix) ==
    Len(s) >= Len(suffix) /\ SubSeq(s, Len(s) - Len(suffix) + 1, Len(s)) = suffix

TrimSuffix(s, suffix) ==
    IF HasSuffix(s, suffix) THEN SubSeq(s, 1, Len(s) - Len(suffix)) ELSE s

\* strings.Split(s, sep) for a one-character separator
RECURSIVE SplitFrom(_, _, _)
SplitFrom(s, sep, cur) ==
    IF s = <<>> THEN <<cur>>
    ELSE IF Head(s) = sep THEN <<cur>> \o SplitFrom(Tail(s), sep, <<>>)
    ELSE SplitFrom(Tail(s), sep, Append(cur, Head(s)))

Split(s, sep) == SplitFrom(s, sep, <<>>)

\* filepath.Ext: the suffix beginning at the final dot in the final element
RECURSIVE ExtFrom(_, _)
ExtFrom(path, i) ==
    IF i < 1 \/ path[i] = "/" THEN <<>>
    ELSE IF path[i] = "." THEN SubSeq(path, i, Len(path))
    ELSE ExtFrom(path, i - 1)

Ext(path) == ExtFrom(path, Len(path))

\* lexical order of Go strings (byte-wise)
RECURSIVE StrLess(_, _)
StrLess(a, b) ==
    IF b = <<>> THEN FALSE
    ELSE IF a = <<>> THEN TRUE
    ELSE IF Ascii(Head(a)) # Ascii(Head(b)) THEN Ascii(Head(a)) < Ascii(Head(b))
    ELSE StrLess(Tail(a), Tail(b))

----------------------------------------------------------------------------
(* The video extension list *)

videoExtensions ==
    <<".", "m", "p", "4", ",", ".", "m", "k", "v", ",", ".", "a", "v", "i", ",",
      ".", "m", "o", "v", ",", ".", "w", "m", "v", ",", ".", "f", "l", "v", ",",
      ".", "w", "e", "b", "m", ",", ".", "m", "4", "v">>

\* extMap of findVideoFiles, as the set of its keys
extMap == {ToLower(e) : e \in SeqToSet(Split(videoExtensions, ","))}

----------------------------------------------------------------------------
(* The file system *)

Root == <<"w">>    \* the working directory

a_mp4 == <<"w", "/", "a", ".", "m", "p", "4">>
a_tmp_mp4 == <<"w", "/", "a", ".", "t", "m", "p", ".", "m", "p", "4">>
b_MP4 == <<"w", "/", "b", ".", "M", "P", "4">>
n_txt == <<"w", "/", "n", ".", "t", "x", "t">>
d_dir == <<"w", "/", "d">>
c_wmv == <<"w", "/", "d", "/", "c", ".", "w", "m", "v">>
c_tmp_wmv == <<"w", "/", "d", "/", "c", ".", "t", "m", "p", ".", "w", "m", "v">>

Candidates == {a_mp4, a_tmp_mp4, b_MP4, n_txt, d_dir, c_wmv, c_tmp_wmv}

\* what each candidate entry may be
CandKinds(p) ==
    IF p = d_dir THEN {"dir", "baddir"}
    ELSE IF p = b_MP4 THEN {"file", "symlink", "dir"}
    ELSE {"file"}

\* tmpFile of stripMetadata: baseName + ".tmp" + ext
TmpPath_inplace(inputFile) == inputFile

TmpPath(inputFile) ==
    LET ext == Ext(inputFile)
        baseName == TrimSuffix(inputFile, ext)
    IN  baseName \o <<".", "t", "m", "p">> \o ext

AllPaths == {Root} \cup Candidates \cup {TmpPath(p) : p \in Candidates}

Absent == [kind |-> "absent", org |-> <<>>, meta |-> "none"]
DirEntry(k) == [kind |-> k, org |-> <<>>, meta |-> "none"]
\* a file (or a link to one) with the media of org and its original tags
FileEntry(k, p) == [kind |-> k, org |-> p, meta |-> "tagged"]

MkEntry(p, k) == IF k \in {"dir", "baddir"} THEN DirEntry(k) ELSE FileEntry(k, p)

Exists(fsx, p) == fsx[p].kind # "absent"
IsDir(fsx, p) == fsx[p].kind \in {"dir", "baddir"}

\* the parent directory of a path below Root
RECURSIVE DirOf(_)
DirOf(p) ==
    IF p = <<>> THEN <<>>
    ELSE IF p[Len(p)] = "/" THEN SubSeq(p, 1, Len(p) - 1)
    ELSE DirOf(SubSeq(p, 1, Len(p) - 1))

TreeOf(S, k) ==
    [p \in AllPaths |->
        IF p = Root THEN DirEntry(k[Root])
        ELSE IF p \in S THEN MkEntry(p, k[p]) ELSE Absent]

\* the directory trees the run may start in
Trees ==
    { TreeOf(S, k) :
        <<S, k>> \in { sk \in UNION { {S} \X [S \cup {Root} -> {"file", "symlink", "dir", "baddir"}] :
                                      S \in {T \in SUBSET Candidates : Cardinality(T) <= MaxEntries} } :
                         /\ sk[2][Root] \in {"dir", "baddir"}
                         /\ \A p \in sk[1] : sk[2][p] \in CandKinds(p)
                         /\ \A p \in sk[1] :
                              DirOf(p) # Root => DirOf(p) \in sk[1] } }

----------------------------------------------------------------------------
(* findVideoFiles *)

\* the callback handed to filepath.Walk
visit_nolower(acc, path, isDir, err) ==
    IF err THEN [acc EXCEPT !.err = TRUE]
    ELSE IF isDir THEN acc
    ELSE IF Ext(path) \in extMap
         THEN [acc EXCEPT !.files = Append(@, path)]
         ELSE acc

visit(acc, path, isDir, err) ==
    IF err THEN [acc EXCEPT !.err = TRUE]
    ELSE IF isDir THEN acc
    ELSE IF ToLower(Ext(path)) \in extMap
         THEN [acc EXCEPT !.files = Append(@, path)]
         ELSE acc

IsChild(dir, q) ==
    /\ Len(q) > Len(dir) + 1
    /\ SubSeq(q, 1, Len(dir) + 1) = dir \o <<"/">>
    /\ \A i \in (Len(dir) + 2)..Len(q) : q[i] # "/"

\* readDirNames: the names in a directory, sorted
RECURSIVE SortPaths(_)
SortPaths(S) ==
    IF S = {} THEN <<>>
    ELSE LET m == CHOOSE x \in S : \A y \in S \ {x} : StrLess(x, y)
         IN  <<m>> \o SortPaths(S \ {m})

readDirNames(fsx, dir) ==
    SortPaths({q \in DOMAIN fsx : Exists(fsx, q) /\ IsChild(dir, q)})

\* filepath.Walk: Lstat, never following links; lexical order per directory;
\* the first error the callback returns stops the walk.
RECURSIVE walk(_, _, _), walkNames(_, _, _)
walk(fsx, path, acc) ==
    IF ~IsDir(fsx, path) THEN visit(acc, path, FALSE, FALSE)
    ELSE LET acc1 == visit(acc, path, TRUE, FALSE)
         IN  IF fsx[path].kind = "baddir"
             THEN visit(acc1, path, TRUE, TRUE)
             ELSE walkNames(fsx, readDirNames(fsx, path), acc1)

walkNames(fsx, names, acc) ==
    IF names = <<>> \/ acc.err THEN acc
    ELSE walkNames(fsx, Tail(names), walk(fsx, Head(names), acc))

findVideoFiles(fsx, dir) == walk(fsx, dir, [files |-> <<>>, err |-> FALSE])

----------------------------------------------------------------------------
(* The run: main, checkFFmpeg, stripMetadata *)

NoProc == "none"

Hist0 ==
    [probe1 |-> "none", brew |-> "none", install |-> "none", probe2 |-> "none",
     checkOK |-> FALSE, discoverOK |-> FALSE, touched |-> FALSE,
     attempts |-> <<>>, verified |-> <<>>, stripFailed |-> {}, preFailed |-> {},
     orig |-> Absent, killedMid |-> FALSE, wroteTmp |-> FALSE,
     cleanup |-> "none", exit |-> -1]

\* the file the loop of main is at
cur == videoFiles[idx]

\* what ffmpeg -map_metadata -1 -c copy makes of an input
Stripped(e) == [kind |-> "file", org |-> e.org, meta |-> "stripped"]
\* an output ffmpeg has begun but not finished
Partial(e) == [kind |-> "file", org |-> e.org, meta |-> "partial"]

Readable(fsx, p) == fsx[p].kind \in {"file", "symlink"}

\* log.Fatalf: the process exits with status 1
Fatal(h) ==
    /\ pc' = "fatal"
    /\ running' = NoProc
    /\ hist' = [h EXCEPT !.exit = 1]

\* the head of the for loop of main at index i: getMetadata(file) starts
\* ffprobe, or the loop is over and main returns
LoopAt(i, h, files) ==
    IF i > Len(files)
    THEN /\ pc' = "done"
         /\ running' = NoProc
         /\ idx' = i
         /\ hist' = [h EXCEPT !.exit = 0]
    ELSE /\ pc' = "preProbe"
         /\ running' = "ffprobe"
         /\ idx' = i
         /\ hist' = [h EXCEPT !.touched = TRUE]

\* os.Getwd, then checkFFmpeg starts `ffmpeg -version`
Getwd ==
    /\ phase = "run" /\ pc = "getwd"
    /\ \E ok \in BOOLEAN :
         IF ok THEN /\ pc' = "probe1"
                    /\ running' = "ffmpegVersion"
                    /\ hist' = hist
               ELSE Fatal(hist)
    /\ UNCHANGED <<fs, videoFiles, walkErr, idx, expired, installExpired, runErr,
                   snapshot, found, remaining, phase>>

\* checkFFmpeg: the error it returns after the re-probe that follows the install
VerifyProbeErr_ignored(ok) == FALSE

VerifyProbeErr(ok) == ~ok

\* checkFFmpeg: the first probe returned; on failure `brew --version` starts
Probe1Done ==
    /\ phase = "run" /\ pc = "probe1"
    /\ \E ok \in BOOLEAN :
         IF ok THEN /\ pc' = "discover"
                    /\ running' = NoProc
                    /\ hist' = [hist EXCEPT !.probe1 = "ok", !.checkOK = TRUE]
               ELSE /\ pc' = "brewProbe"
                    /\ running' = "brewVersion"
                    /\ hist' = [hist EXCEPT !.probe1 = "fail"]
    /\ UNCHANGED <<fs, videoFiles, walkErr, idx, expired, installExpired, runErr,
                   snapshot, found, remaining, phase>>

\* checkFFmpeg: the Homebrew probe returned; on success `brew install ffmpeg`
\* is run under installCtx (a context that is already done starts nothing)
BrewProbeDone ==
    /\ phase = "run" /\ pc = "brewProbe"
    /\ \E ok \in BOOLEAN :
         IF ~ok THEN Fatal([hist EXCEPT !.brew = "fail"])
         ELSE IF expired
         THEN Fatal([hist EXCEPT !.brew = "ok", !.install = "timeout"])
         ELSE /\ pc' = "install"
              /\ running' = "brewInstall"
              /\ hist' = [hist EXCEPT !.brew = "ok", !.install = "started"]
    /\ UNCHANGED <<fs, videoFiles, walkErr, idx, expired, installExpired, runErr,
                   snapshot, found, remaining, phase>>

\* checkFFmpeg: installCmd.Run returned; on success the re-probe starts
InstallDone ==
    /\ phase = "run" /\ pc = "install"
    /\ IF running = NoProc
       THEN \* killed when installCtx was done
            Fatal([hist EXCEPT !.install = "timeout"])
       ELSE \E ok \in BOOLEAN :
              IF ok THEN /\ pc' = "probe2"
                         /\ running' = "ffmpegVersion"
                         /\ hist' = [hist EXCEPT !.install = "ok"]
                    ELSE Fatal([hist EXCEPT !.install = "fail"])
    /\ UNCHANGED <<fs, videoFiles, walkErr, idx, expired, installExpired, runErr,
                   snapshot, found, remaining, phase>>

\* checkFFmpeg: the re-probe returned
Probe2Done ==
    /\ phase = "run" /\ pc = "probe2"
    /\ \E ok \in BOOLEAN :
         IF VerifyProbeErr(ok)
         THEN Fatal([hist EXCEPT !.probe2 = IF ok THEN "ok" ELSE "fail"])
         ELSE /\ pc' = "discover"
              /\ running' = NoProc
              /\ hist' = [hist EXCEPT !.probe2 = IF ok THEN "ok" ELSE "fail",
                                      !.checkOK = TRUE]
    /\ UNCHANGED <<fs, videoFiles, walkErr, idx, expired, installExpired, runErr,
                   snapshot, found, remaining, phase>>

\* main: findVideoFiles(workDir), then the first iteration of the loop
Discover ==
    /\ phase = "run" /\ pc = "discover"
    /\ LET r == findVideoFiles(fs, Root)
       IN  /\ walkErr' = r.err
           /\ videoFiles' = r.files
           /\ IF r.err
              THEN Fatal(hist) /\ idx' = idx
              ELSE LoopAt(1, [hist EXCEPT !.discoverOK = TRUE], r.files)
    /\ UNCHANGED <<fs, expired, installExpired, runErr,
                   snapshot, found, remaining, phase>>

\* main after getMetadata(file) returned: a failure is only a warning
AfterPreProbe_skip(ok) == IF ok THEN "strip" ELSE "next"

AfterPreProbe(ok) == "strip"

\* stripMetadata after cmd.Run returned
AfterRun_ignored(err) == "replace"

AfterRun(err) == IF err THEN "cleanup" ELSE "replace"

\* main: getMetadata(file) returned (displayMetadata only logs); then
\* stripMetadata(ctx, file) is entered and ffmpeg is started under ctx
PreProbeDone ==
    /\ phase = "run" /\ pc = "preProbe"
    /\ \E ok \in BOOLEAN :
         /\ ok => Readable(fs, cur)
         /\ LET h == [hist EXCEPT !.preFailed = IF ok THEN @ ELSE @ \cup {cur}]
            IN  IF AfterPreProbe(ok) = "strip"
                THEN /\ idx' = idx
                     /\ hist' = [h EXCEPT !.attempts = Append(@, cur),
                                          !.orig = fs[cur],
                                          !.killedMid = FALSE,
                                          !.wroteTmp = FALSE,
                                          !.cleanup = "none"]
                     /\ IF expired
                        THEN \* cmd.Start fails at once: ctx is done
                             /\ pc' = AfterRun(TRUE)
                             /\ running' = NoProc
                             /\ runErr' = TRUE
                        ELSE /\ pc' = "strip"
                             /\ running' = "ffmpeg"
                             /\ runErr' = FALSE
                ELSE LoopAt(idx + 1, h, videoFiles) /\ runErr' = runErr
    /\ UNCHANGED <<fs, videoFiles, walkErr, expired, installExpired,
                   snapshot, found, remaining, phase>>

\* ffmpeg opens its output (-y: whatever is at tmpFile is overwritten)
FfmpegWrite ==
    /\ phase = "run" /\ pc = "strip" /\ running = "ffmpeg"
    /\ Readable(fs, cur)
    /\ fs[TmpPath(cur)] # Partial(fs[cur])
    /\ fs' = [fs EXCEPT ![TmpPath(cur)] = Partial(fs[cur])]
    /\ hist' = [hist EXCEPT !.wroteTmp = TRUE]
    /\ UNCHANGED <<pc, videoFiles, walkErr, idx, expired, installExpired, running,
                   runErr, snapshot, found, remaining, phase>>

\* cmd.Run returned while ffmpeg was alive: exit status zero (the output is
\* complete, or nothing was written at all) or non-zero
StripDone ==
    /\ phase = "run" /\ pc = "strip" /\ running = "ffmpeg"
    /\ \E ok \in BOOLEAN, wrote \in BOOLEAN :
         /\ ok => Readable(fs, cur)
         /\ wrote => ok
         /\ fs' = IF wrote THEN [fs EXCEPT ![TmpPath(cur)] = Stripped(fs[cur])]
                           ELSE fs
         /\ runErr' = ~ok
         /\ pc' = AfterRun(~ok)
    /\ running' = NoProc
    /\ UNCHANGED <<videoFiles, walkErr, idx, expired, installExpired, hist,
                   snapshot, found, remaining, phase>>

\* cmd.Run returned because ffmpeg was killed when ctx was done
StripKilled ==
    /\ phase = "run" /\ pc = "strip" /\ running = NoProc
    /\ runErr' = TRUE
    /\ pc' = AfterRun(TRUE)
    /\ UNCHANGED <<fs, videoFiles, walkErr, idx, expired, installExpired, running,
                   hist, snapshot, found, remaining, phase>>

\* os.Rename(tmpFile, inputFile)
Rename(fsx, from, to) == [fsx EXCEPT ![to] = fsx[from], ![from] = Absent]

\* stripMetadata: os.Stat(tmpFile), then os.Rename(tmpFile, inputFile)
Replace ==
    /\ phase = "run" /\ pc = "replace"
    /\ IF ~Exists(fs, TmpPath(cur))
       THEN /\ runErr' = TRUE
            /\ fs' = fs
       ELSE \E ok \in BOOLEAN :
              /\ runErr' = ~ok
              /\ fs' = IF ok THEN Rename(fs, TmpPath(cur), cur) ELSE fs
    /\ pc' = "cleanup"
    /\ UNCHANGED <<videoFiles, walkErr, idx, expired, installExpired, running,
                   hist, snapshot, found, remaining, phase>>

\* the deferred function of stripMetadata: os.Stat, then os.Remove
CleanupFs_none(fsx, tmpFile, outcome) == fsx

CleanupFs(fsx, tmpFile, outcome) ==
    IF Exists(fsx, tmpFile) /\ outcome = "removed"
    THEN [fsx EXCEPT ![tmpFile] = Absent]
    ELSE fsx

\* stripMetadata returns: the deferred function runs
Cleanup ==
    /\ phase = "run" /\ pc = "cleanup"
    /\ \E outcome \in {"removed", "removeFailed", "statFailed"} :
         /\ ~Exists(fs, TmpPath(cur)) => outcome = "removed"
         /\ fs' = CleanupFs(fs, TmpPath(cur), outcome)
         /\ hist' = [hist EXCEPT !.cleanup =
                        IF Exists(fs, TmpPath(cur)) THEN outcome ELSE "nothing"]
    /\ pc' = "stripRet"
    /\ UNCHANGED <<videoFiles, walkErr, idx, expired, installExpired, running,
                   runErr, snapshot, found, remaining, phase>>

\* main after stripMetadata returned: on error log and continue, otherwise
\* verifyMetadataRemoved(file) starts ffprobe
StripReturn ==
    /\ phase = "run" /\ pc = "stripRet"
    /\ IF runErr
       THEN LoopAt(idx + 1, [hist EXCEPT !.stripFailed = @ \cup {cur}], videoFiles)
       ELSE /\ pc' = "postProbe"
            /\ running' = "ffprobe"
            /\ idx' = idx
            /\ hist' = [hist EXCEPT !.verified = Append(@, cur)]
    /\ UNCHANGED <<fs, videoFiles, walkErr, expired, installExpired, runErr,
                   snapshot, found, remaining, phase>>

\* verifyMetadataRemoved returned (it only logs); next iteration
PostProbeDone ==
    /\ phase = "run" /\ pc = "postProbe"
    /\ LoopAt(idx + 1, hist, videoFiles)
    /\ UNCHANGED <<fs, videoFiles, walkErr, expired, installExpired, runErr,
                   snapshot, found, remaining, phase>>

\* commands built with exec.CommandContext, which are killed when their
\* context is done
CtxBound == {"ffmpeg", "brewInstall"}

\* the 30-minute deadline of main's context passes
Timeout ==
    /\ phase = "run" /\ pc \notin {"done", "fatal"}
    /\ ~expired
    /\ expired' = TRUE
    /\ running' = IF running \in CtxBound THEN NoProc ELSE running
    /\ hist' = [hist EXCEPT !.killedMid = @ \/ (running = "ffmpeg")]
    /\ UNCHANGED <<fs, pc, videoFiles, walkErr, idx, installExpired, runErr,
                   snapshot, found, remaining, phase>>

\* the 20-minute deadline of installCtx passes
InstallTimeout ==
    /\ phase = "run" /\ pc = "install" /\ running = "brewInstall"
    /\ ~installExpired
    /\ installExpired' = TRUE
    /\ running' = NoProc
    /\ UNCHANGED <<fs, pc, videoFiles, walkErr, idx, expired, runErr, hist,
                   snapshot, found, remaining, phase>>

NoSnapshot == [format |-> <<>>, streams |-> <<>>]

Init ==
    /\ phase = "run"
    /\ fs \in Trees
    /\ pc = "getwd"
    /\ videoFiles = <<>>
    /\ walkErr = FALSE
    /\ idx = 0
    /\ expired = FALSE
    /\ installExpired = FALSE
    /\ running = NoProc
    /\ runErr = FALSE
    /\ hist = Hist0
    /\ snapshot = NoSnapshot
    /\ found = <<>>
    /\ remaining = <<>>

Next ==
    \/ Getwd
    \/ Probe1Done
    \/ BrewProbeDone
    \/ InstallDone
    \/ Probe2Done
    \/ Discover
    \/ PreProbeDone
    \/ FfmpegWrite
    \/ StripDone
    \/ StripKilled
    \/ Replace
    \/ Cleanup
    \/ StripReturn
    \/ PostProbeDone
    \/ Timeout
    \/ InstallTimeout

Spec == Init /\ [][Next]_vars

----------------------------------------------------------------------------
(* Properties of the run *)

\* positions inside one call of stripMetadata
StripPcs == {"strip", "replace", "cleanup"}

InStrip == phase = "run" /\ pc \in StripPcs
AtStripReturn == phase = "run" /\ pc = "stripRet"

\* C1: whenever stripMetadata(file) returns an error the original file is as
\* it was when the call began, and inside stripMetadata the only step that
\* changes the original is the rename, taken only after ffmpeg returned
\* success and the temporary file was seen to exist.
C1_OriginalUntouchedOnError ==
    /\ [](AtStripReturn /\ runErr => fs[cur] = hist.orig)
    /\ [][InStrip /\ fs'[cur] # fs[cur]
            => /\ pc = "replace"
               /\ ~runErr
               /\ Exists(fs, TmpPath(cur))
               /\ fs'[cur] = fs[TmpPath(cur)]]_vars

C1_Witness ==
    /\ AtStripReturn /\ runErr
    /\ Exists(fs, cur)
    /\ hist.cleanup = "removed"
    /\ ~hist.killedMid

\* C2 as stated: after every return of stripMetadata(file) nothing exists at
\* the file's temporary path.
C2_NoTempAfterReturn ==
    AtStripReturn => ~Exists(fs, TmpPath(cur))

\* C2 amended: after every return of stripMetadata(file) nothing exists at
\* the file's temporary path, unless the deferred cleanup's os.Stat or
\* os.Remove failed (then the temporary file stays and a warning is logged).
C2_NoTempUnlessCleanupFailed ==
    AtStripReturn /\ hist.cleanup \notin {"removeFailed", "statFailed"}
        => ~Exists(fs, TmpPath(cur))

C2_Witness ==
    /\ AtStripReturn
    /\ hist.cleanup = "removed"
    /\ ~Exists(fs, TmpPath(cur))
    /\ Len(hist.attempts) = 2

\* C3: every discovered file gets exactly one stripMetadata attempt, in
\* discovery order; a strip failure skips only that file's verification; a
\* getMetadata failure before the strip does not skip the strip; the run ends
\* with exit status zero even when files failed.
Attempted ==
    IF pc \in StripPcs \cup {"stripRet", "postProbe"} THEN idx
    ELSE IF pc = "preProbe" THEN idx - 1
    ELSE IF pc = "done" THEN Len(videoFiles)
    ELSE 0

C3_EveryFileOneAttempt ==
    phase = "run" =>
        /\ hist.attempts = SubSeq(videoFiles, 1, Attempted)
        /\ \A i \in 1..Len(hist.verified) : hist.verified[i] \notin hist.stripFailed
        /\ hist.exit = 1 => hist.attempts = <<>>
        /\ pc = "done" =>
             /\ hist.exit = 0
             /\ hist.attempts = videoFiles
             /\ SeqToSet(hist.verified) = SeqToSet(videoFiles) \ hist.stripFailed
             /\ hist.preFailed \subseteq SeqToSet(hist.attempts)

C3_Witness ==
    /\ phase = "run" /\ pc = "done"
    /\ Len(videoFiles) >= 2
    /\ hist.stripFailed # {}
    /\ hist.preFailed # {}
    /\ hist.verified # <<>>
    /\ videoFiles[1] \in hist.stripFailed

\* C4: no file is touched unless checkFFmpeg returned success and discovery
\* returned without error; checkFFmpeg succeeds only if a version probe
\* succeeded (the first, or the re-probe after a successful install); the
\* install is attempted only after the first probe failed and the Homebrew
\* probe succeeded; every other outcome ends the program before the loop.
C4_Inv ==
    phase = "run" =>
        /\ (hist.touched \/ running \in {"ffprobe", "ffmpeg"} \/ idx > 0)
              => hist.checkOK /\ hist.discoverOK
        /\ hist.checkOK =>
              \/ hist.probe1 = "ok"
              \/ /\ hist.probe1 = "fail" /\ hist.brew = "ok"
                 /\ hist.install = "ok" /\ hist.probe2 = "ok"
        /\ hist.install # "none" => hist.probe1 = "fail" /\ hist.brew = "ok"
        /\ ( \/ hist.brew = "fail"
             \/ hist.install \in {"fail", "timeout"}
             \/ hist.probe2 = "fail"
             \/ walkErr )
              => pc = "fatal" /\ ~hist.touched /\ hist.exit = 1

C4_NothingTouchedBeforeChecks ==
    /\ []C4_Inv
    /\ [][fs' # fs => hist.checkOK /\ hist.discoverOK]_vars

C4_Witness ==
    /\ phase = "run"
    /\ hist.touched
    /\ hist.install = "ok"
    /\ pc = "postProbe"

\* C8 as stated: once the 30-minute deadline has passed no external process
\* started by the run is running.
C8_NoProcessAfterDeadline ==
    phase = "run" /\ expired => running = NoProc

\* C9 as stated: the steps run for file f create, overwrite, delete or rename
\* no discovered file other than f.
C9_OtherFilesUntouched ==
    [][phase = "run" /\ pc \in StripPcs
         => \A g \in SeqToSet(videoFiles) \ {cur} : fs'[g] = fs[g]]_vars

\* C10 as stated: when the deadline passes while the ffmpeg strip of a file
\* is running, the file is left as the original plus a stray temporary file.
C10_StrayTempAfterTimeout ==
    AtStripReturn /\ hist.killedMid /\ hist.wroteTmp
        => fs[cur] = hist.orig /\ Exists(fs, TmpPath(cur))

\* C10 amended: when the deadline passes while the ffmpeg strip of a file is
\* running, stripMetadata returns an error with the file left as the original
\* (no rename), and the deferred cleanup has removed whatever was at the
\* temporary path, a stray temporary file staying only if that removal failed.
C10_OriginalKeptTempRemoved ==
    AtStripReturn /\ hist.killedMid
        => /\ runErr
           /\ fs[cur] = hist.orig
           /\ hist.cleanup \in {"removed", "nothing"} => ~Exists(fs, TmpPath(cur))
           /\ Exists(fs, TmpPath(cur)) => hist.cleanup \in {"removeFailed", "statFailed"}

C10_Witness ==
    /\ AtStripReturn /\ hist.killedMid /\ hist.wroteTmp
    /\ hist.cleanup = "removed"
    /\ Exists(fs, cur)

----------------------------------------------------------------------------
(* findVideoFiles on its own *)

InitFind ==
    /\ phase = "find"
    /\ fs \in Trees
    /\ pc = "walk"
    /\ videoFiles = <<>>
    /\ walkErr = FALSE
    /\ idx = 0
    /\ expired = FALSE
    /\ installExpired = FALSE
    /\ running = NoProc
    /\ runErr = FALSE
    /\ hist = Hist0
    /\ snapshot = NoSnapshot
    /\ found = <<>>
    /\ remaining = <<>>

FindVideoFiles ==
    /\ phase = "find" /\ pc = "walk"
    /\ LET r == findVideoFiles(fs, Root)
       IN  /\ videoFiles' = r.files
           /\ walkErr' = r.err
    /\ pc' = "walked"
    /\ UNCHANGED <<fs, idx, expired, installExpired, running, runErr, hist,
                   snapshot, found, remaining, phase>>

NextFind == FindVideoFiles

SpecFind == InitFind /\ [][NextFind]_vars

\* the allow-list, written out
VideoExts ==
    { <<".", "m", "p", "4">>, <<".", "m", "k", "v">>, <<".", "a", "v", "i">>,
      <<".", "m", "o", "v">>, <<".", "w", "m", "v">>, <<".", "f", "l", "v">>,
      <<".", "w", "e", "b", "m">>, <<".", "m", "4", "v">> }

Walked == phase = "find" /\ pc = "walked"

UnderRoot == AllPaths \ {Root}

\* C5 as stated: findVideoFiles returns exactly the regular files under the
\* root whose lowercased extension is in the allow-list, no directory and no
\* other file, and any traversal error makes the call fail.
C5_ExactlyRegularFiles ==
    Walked =>
        /\ ~walkErr =>
             SeqToSet(videoFiles) =
                {p \in UnderRoot : fs[p].kind = "file" /\ ToLower(Ext(p)) \in VideoExts}
        /\ walkErr <=> \E p \in AllPaths : fs[p].kind = "baddir"

\* C5 amended: findVideoFiles returns exactly the non-directory entries under
\* the root (regular files, and also symbolic links, which the walk reports
\* without following) whose lowercased extension is in the allow-list, each
\* once and no directory, and any traversal error makes the call fail.
C5_ExactlyNonDirectories ==
    Walked =>
        /\ ~walkErr =>
             /\ SeqToSet(videoFiles) =
                  {p \in UnderRoot : /\ Exists(fs, p) /\ ~IsDir(fs, p)
                                     /\ ToLower(Ext(p)) \in VideoExts}
             /\ Len(videoFiles) = Cardinality(SeqToSet(videoFiles))
        /\ \A i \in 1..Len(videoFiles) : ~IsDir(fs, videoFiles[i])
        /\ walkErr <=> \E p \in AllPaths : fs[p].kind = "baddir"

C5_Witness ==
    /\ Walked /\ ~walkErr
    /\ videoFiles = <<b_MP4>>
    /\ fs[b_MP4].kind = "file"
    /\ Exists(fs, n_txt)

----------------------------------------------------------------------------
(* Metadata snapshots and the two classifications *)

V_empty == <<>>
V_Vacation == <<"V", "a", "c", "a", "t", "i", "o", "n">>
V_HandBrake == <<"H", "a", "n", "d", "B", "r", "a", "k", "e", " ", "1", ".", "6">>
V_Lavf == <<"L", "a", "v", "f", "6", "0", ".", "3", ".", "1", "0", "0">>
V_Lavc == <<"L", "a", "v", "c", "6", "0", ".", "3", ".", "1", "0", "0">>

FormatKeySeq ==
    <<"creation_time", "encoder", "comment", "title", "artist", "album", "date",
      "description", "major_brand", "minor_version", "compatible_brands",
      "location">>

StreamKeySeq == <<"creation_time", "encoder", "timecode", "language">>

\* the values a tag may carry in a snapshot
TagValues(key) ==
    IF key = "encoder" THEN {V_empty, V_HandBrake, V_Lavf, V_Lavc}
    ELSE IF key = "title" THEN {V_empty, V_Vacation, V_Lavf}
    ELSE {V_empty, V_Vacation}

\* slot j is <<0, key>> for a container tag, <<i, key>> for a tag of stream i
NSlots(n) == Len(FormatKeySeq) + n * Len(StreamKeySeq)

Slot(j) ==
    IF j <= Len(FormatKeySeq) THEN <<0, FormatKeySeq[j]>>
    ELSE LET r == j - Len(FormatKeySeq) - 1
         IN  <<(r \div Len(StreamKeySeq)) + 1, StreamKeySeq[(r % Len(StreamKeySeq)) + 1]>>

\* the ways to give values to at most k of the slots lo..m
RECURSIVE TagChoices(_, _, _)
TagChoices(k, lo, m) ==
    IF k = 0 \/ lo > m THEN {<<>>}
    ELSE {<<>>} \cup
         UNION { UNION { { <<<<Slot(j)[1], Slot(j)[2], v>>>> \o rest :
                             rest \in TagChoices(k - 1, j + 1, m) } :
                         v \in TagValues(Slot(j)[2]) } :
                 j \in lo..m }

TagsOf(choice, scope) ==
    LET js == {j \in DOMAIN choice : choice[j][1] = scope}
    IN  [key \in {choice[j][2] : j \in js} |->
            choice[CHOOSE j \in js : choice[j][2] = key][3]]

SnapshotOf(n, choice) ==
    [format  |-> TagsOf(choice, 0),
     streams |-> [i \in 1..n |-> TagsOf(choice, i)]]

\* the snapshot of the post-strip scenario: only technical tags and ffmpeg's
\* own encoder tag
TechnicalOnly ==
    [format  |-> [key \in {"major_brand", "minor_version", "compatible_brands",
                           "encoder"} |->
                    IF key = "encoder" THEN V_Lavf ELSE V_Vacation],
     streams |-> <<>>]

\* a snapshot of a file as a camera and an editor leave it
FullyTagged ==
    [format  |-> [key \in {"creation_time", "encoder", "title", "location"} |->
                    IF key = "encoder" THEN V_HandBrake ELSE V_Vacation],
     streams |-> << [key \in {"creation_time", "encoder", "timecode"} |->
                       IF key = "encoder" THEN V_Lavc ELSE V_Vacation],
                    [key \in {"encoder", "timecode", "language"} |->
                       IF key = "encoder" THEN V_HandBrake ELSE V_Vacation] >>]

\* fmt.Sprintf("%d", i)
Itoa(i) ==
    CASE i = 0 -> "0" [] i = 1 -> "1" [] i = 2 -> "2" [] i = 3 -> "3"
      [] i = 4 -> "4" [] i = 5 -> "5"

\* fmt.Sprintf("%s: %s", key, value)
Fmt(key, value) == <<key, ": ">> \o value

\* fmt.Sprintf("stream[%d].%s: %s", i, key, value)
FmtStream(i, key, value) == <<"stream[", Itoa(i), "].", key, ": ">> \o value

\* v, ok := tags[key]; ok && v != ""
Has(tags, key) == key \in DOMAIN tags /\ tags[key] # <<>>

\* displayMetadata: the container part, one if per known tag
displayFormat_swapped(tags) ==
    LET f1 == IF Has(tags, "encoder")
              THEN <<Fmt("encoder", tags["encoder"])>> ELSE <<>>
        f2 == IF Has(tags, "creation_time")
              THEN Append(f1, Fmt("creation_time", tags["creation_time"])) ELSE f1
        f3 == IF Has(tags, "comment")
              THEN Append(f2, Fmt("comment", tags["comment"])) ELSE f2
        f4 == IF Has(tags, "title")
              THEN Append(f3, Fmt("title", tags["title"])) ELSE f3
        f5 == IF Has(tags, "artist")
              THEN Append(f4, Fmt("artist", tags["artist"])) ELSE f4
        f6 == IF Has(tags, "album")
              THEN Append(f5, Fmt("album", tags["album"])) ELSE f5
        f7 == IF Has(tags, "date")
              THEN Append(f6, Fmt("date", tags["date"])) ELSE f6
        f8 == IF Has(tags, "description")
              THEN Append(f7, Fmt("description", tags["description"])) ELSE f7
    IN  f8

displayFormat(tags) ==
    LET f1 == IF Has(tags, "creation_time")
              THEN <<Fmt("creation_time", tags["creation_time"])>> ELSE <<>>
        f2 == IF Has(tags, "encoder")
              THEN Append(f1, Fmt("encoder", tags["encoder"])) ELSE f1
        f3 == IF Has(tags, "comment")
              THEN Append(f2, Fmt("comment", tags["comment"])) ELSE f2
        f4 == IF Has(tags, "title")
              THEN Append(f3, Fmt("title", tags["title"])) ELSE f3
        f5 == IF Has(tags, "artist")
              THEN Append(f4, Fmt("artist", tags["artist"])) ELSE f4
        f6 == IF Has(tags, "album")
              THEN Append(f5, Fmt("album", tags["album"])) ELSE f5
        f7 == IF Has(tags, "date")
              THEN Append(f6, Fmt("date", tags["date"])) ELSE f6
        f8 == IF Has(tags, "description")
              THEN Append(f7, Fmt("description", tags["description"])) ELSE f7
    IN  f8

\* displayMetadata: the body of the loop over the streams (i counts from 0)
displayStream(acc, i, tags) ==
    LET s1 == IF Has(tags, "creation_time")
              THEN Append(acc, FmtStream(i, "creation_time", tags["creation_time"]))
              ELSE acc
        s2 == IF Has(tags, "encoder")
              THEN Append(s1, FmtStream(i, "encoder", tags["encoder"])) ELSE s1
        s3 == IF Has(tags, "timecode")
              THEN Append(s2, FmtStream(i, "timecode", tags["timecode"])) ELSE s2
    IN  s3

RECURSIVE displayStreams(_, _, _)
displayStreams(acc, streams, i) ==
    IF i >= Len(streams) THEN acc
    ELSE displayStreams(displayStream(acc, i, streams[i + 1]), streams, i + 1)

\* foundMetadata of displayMetadata
displayMetadata(md) == displayStreams(displayFormat(md.format), md.streams, 0)

ignoredTags == {"major_brand", "minor_version", "compatible_brands"}

\* verifyMetadataRemoved: the encoder tag ffmpeg itself writes to a container
lavfEncoder_anyLav(key, value) ==
    key = "encoder" /\ HasPrefix(value, <<"L", "a", "v">>)

lavfEncoder(key, value) ==
    key = "encoder" /\ HasPrefix(value, <<"L", "a", "v", "f">>)

\* verifyMetadataRemoved: the loop over the container tags, in the order the
\* map iteration happens to take
RECURSIVE verifyFormat(_, _, _)
verifyFormat(acc, tags, order) ==
    IF order = <<>> THEN acc
    ELSE LET key == Head(order)
             value == tags[key]
         IN  IF key \notin ignoredTags /\ value # <<>> /\ ~lavfEncoder(key, value)
             THEN verifyFormat(Append(acc, Fmt(key, value)), tags, Tail(order))
             ELSE verifyFormat(acc, tags, Tail(order))

\* verifyMetadataRemoved: the body of the loop over the streams
verifyStream(acc, i, tags) ==
    LET s1 == IF Has(tags, "creation_time")
              THEN Append(acc, FmtStream(i, "creation_time", tags["creation_time"]))
              ELSE acc
        s2 == IF Has(tags, "encoder") /\ ~HasPrefix(tags["encoder"], <<"L", "a", "v">>)
              THEN Append(s1, FmtStream(i, "encoder", tags["encoder"])) ELSE s1
        s3 == IF Has(tags, "timecode")
              THEN Append(s2, FmtStream(i, "timecode", tags["timecode"])) ELSE s2
    IN  s3

RECURSIVE verifyStreams(_, _, _)
verifyStreams(acc, streams, i) ==
    IF i >= Len(streams) THEN acc
    ELSE verifyStreams(verifyStream(acc, i, streams[i + 1]), streams, i + 1)

\* remainingMetadata of verifyMetadataRemoved
verifyMetadataRemoved(md, order) ==
    verifyStreams(verifyFormat(<<>>, md.format, order), md.streams, 0)

\* the orders in which a map with these keys may be iterated
RECURSIVE Orders(_)
Orders(K) ==
    IF K = {} THEN {<<>>}
    ELSE UNION { {<<k>> \o o : o \in Orders(K \ {k})} : k \in K }

InitClassify ==
    /\ phase = "classify"
    /\ \/ snapshot \in {TechnicalOnly, FullyTagged}
       \/ \E n \in 0..MaxStreams :
            \E choice \in TagChoices(MaxTags, 1, NSlots(n)) :
              snapshot = SnapshotOf(n, choice)
    /\ pc = "probed"
    /\ fs = [p \in AllPaths |-> Absent]
    /\ videoFiles = <<>>
    /\ walkErr = FALSE
    /\ idx = 0
    /\ expired = FALSE
    /\ installExpired = FALSE
    /\ running = NoProc
    /\ runErr = FALSE
    /\ hist = Hist0
    /\ found = <<>>
    /\ remaining = <<>>

\* displayMetadata(metadata) on the snapshot
DisplayMetadata ==
    /\ phase = "classify" /\ pc = "probed"
    /\ found' = displayMetadata(snapshot)
    /\ pc' = "displayed"
    /\ UNCHANGED <<fs, videoFiles, walkErr, idx, expired, installExpired, running,
                   runErr, hist, snapshot, remaining, phase>>

\* the classification of verifyMetadataRemoved on the snapshot
VerifyMetadataRemoved ==
    /\ phase = "classify" /\ pc = "probed"
    /\ \E order \in Orders(DOMAIN snapshot.format) :
         remaining' = verifyMetadataRemoved(snapshot, order)
    /\ pc' = "verified"
    /\ UNCHANGED <<fs, videoFiles, walkErr, idx, expired, installExpired, running,
                   runErr, hist, snapshot, found, phase>>

NextClassify == DisplayMetadata \/ VerifyMetadataRemoved

SpecClassify == InitClassify /\ [][NextClassify]_vars

\* the fixed priority of the container tags before the strip
Priority ==
    <<"creation_time", "encoder", "comment", "title", "artist", "album", "date",
      "description">>

StreamPriority == <<"creation_time", "encoder", "timecode">>

\* the findings for the listed keys that are present and non-empty, in the
\* order of the list
RECURSIVE Listed(_, _, _)
Listed(keys, tags, scope) ==
    IF keys = <<>> THEN <<>>
    ELSE LET k == Head(keys)
             rest == Listed(Tail(keys), tags, scope)
         IN  IF k \in DOMAIN tags /\ Len(tags[k]) > 0
             THEN <<IF scope < 0 THEN Fmt(k, tags[k])
                                 ELSE FmtStream(scope, k, tags[k])>> \o rest
             ELSE rest

RECURSIVE ListedStreams(_, _)
ListedStreams(streams, i) ==
    IF i > Len(streams) THEN <<>>
    ELSE Listed(StreamPriority, streams[i], i - 1) \o ListedStreams(streams, i + 1)

\* C7: displayMetadata lists the non-empty container tags among the eight
\* known keys in the fixed priority order, then the streams in their order,
\* each with creation_time, encoder, timecode in that order when present and
\* non-empty; a snapshot without tags yields no finding.
C7_DisplayOrder ==
    phase = "classify" /\ pc = "displayed" =>
        /\ found = Listed(Priority, snapshot.format, -1) \o ListedStreams(snapshot.streams, 1)
        /\ ( /\ DOMAIN snapshot.format = {}
             /\ \A i \in 1..Len(snapshot.streams) : DOMAIN snapshot.streams[i] = {} )
              => found = <<>>

C7_Witness ==
    /\ phase = "classify" /\ pc = "displayed"
    /\ DOMAIN snapshot.format = {"creation_time", "encoder"}
    /\ snapshot.format["encoder"] = V_HandBrake
    /\ found = <<Fmt("creation_time", snapshot.format["creation_time"]),
                 Fmt("encoder", V_HandBrake)>>

\* what the post-strip classification is to report
ExpectedRemaining(md) ==
    { Fmt(k, md.format[k]) :
        k \in { k \in DOMAIN md.format :
                  /\ md.format[k] # <<>>
                  /\ k \notin {"major_brand", "minor_version", "compatible_brands"}
                  /\ ~(k = "encoder" /\ HasPrefix(md.format[k], <<"L", "a", "v", "f">>)) } }
    \cup
    { FmtStream(ik[1] - 1, ik[2], md.streams[ik[1]][ik[2]]) :
        ik \in { ik \in (1..Len(md.streams)) \X {"creation_time", "encoder", "timecode"} :
                   /\ ik[2] \in DOMAIN md.streams[ik[1]]
                   /\ md.streams[ik[1]][ik[2]] # <<>>
                   /\ ~(ik[2] = "encoder"
                        /\ HasPrefix(md.streams[ik[1]][ik[2]], <<"L", "a", "v">>)) } }

\* C6: verifyMetadataRemoved reports exactly the non-empty container tags
\* that are neither one of the three technical tags nor an encoder starting
\* with Lavf, and per stream the non-empty creation_time and timecode and
\* the non-empty encoder unless it starts with Lav; only technical tags and
\* encoder Lavf60.3.100 give no finding, a lone title gives the one finding.
C6_RemainingFindings ==
    phase = "classify" /\ pc = "verified" =>
        /\ SeqToSet(remaining) = ExpectedRemaining(snapshot)
        /\ Len(remaining) = Cardinality(ExpectedRemaining(snapshot))
        /\ snapshot = TechnicalOnly => remaining = <<>>
        /\ ( /\ snapshot.streams = <<>>
             /\ DOMAIN snapshot.format = {"title"}
             /\ snapshot.format["title"] = V_Vacation )
              => remaining = << <<"title", ": ", "V", "a", "c", "a", "t", "i", "o", "n">> >>

C6_Witness ==
    /\ phase = "classify" /\ pc = "verified"
    /\ snapshot.streams = <<>>
    /\ DOMAIN snapshot.format = {"title"}
    /\ snapshot.format["title"] = V_Vacation
    /\ Len(remaining) = 1

====
